---- MODULE Spec2Model ----
(***************************************************************************)
(* Model of the admin dashboard client (src/src/App.tsx): the api()        *)
(* request wrapper, the LoginScreen and Dashboard components and the App   *)
(* root that switches between them.                                        *)
(*                                                                         *)
(* Strings are sequences of tokens, so that trim(), template literals and  *)
(* "contains" are computed, not assumed.  A request in flight is a record  *)
(* holding what was sent and the closure of the async handler awaiting it; *)
(* `live` says whether the component instance that owns the closure is     *)
(* still mounted (React drops state updates of an unmounted component).    *)
(***************************************************************************)
EXTENDS Naturals, Sequences, FiniteSets

\* Number of requests issued in one behaviour.
MaxReq == 4

VARIABLES
    storage,          \* localStorage["admin_key"], Null when absent
    adminKey,         \* App state
    key,              \* LoginScreen state
    loading,
    error,
    accounts,         \* Dashboard state
    email,
    days,
    granting,
    revoking,
    message,
    loadingAccounts,
    inflight,         \* requests awaiting their response
    nextId            \* id of the next request

vars == <<storage, adminKey, key, loading, error, accounts, email, days,
          granting, revoking, message, loadingAccounts, inflight, nextId>>

loginVars == <<key, loading, error>>

dashVars == <<accounts, email, days, granting, revoking, message, loadingAccounts>>

-----------------------------------------------------------------------------
\* Values

\* null / absent (getItem of a missing entry, useState(null))
Null == <<"null">>

\* String.prototype.trim
RECURSIVE TrimStart(_)
TrimStart(s) ==
    IF s # <<>> /\ Head(s) = " " THEN TrimStart(Tail(s)) ELSE s

RECURSIVE TrimEnd(_)
TrimEnd(s) ==
    IF s # <<>> /\ s[Len(s)] = " " THEN TrimEnd(SubSeq(s, 1, Len(s) - 1)) ELSE s

Trim(s) == TrimEnd(TrimStart(s))

\* text.includes(part)
Contains(text, part) ==
    \E i \in 0..(Len(text) - Len(part)) : SubSeq(text, i + 1, i + Len(part)) = part

\* What the administrator can type into the key field.
KeyInputs == {<<" ">>, <<"k">>, <<" ", "k">>}

\* What the administrator can type into the email field.
EmailInputs == {<<" ">>, <<"a">>, <<" ", "a">>}

\* Items of the trial duration select.
DaysOptions == {"7", "14"}

\* parseInt on the select's values
ParseInt(d) == IF d = "7" THEN 7 ELSE IF d = "14" THEN 14 ELSE 0

DefaultModules == <<"blog", "localseo">>

NoMessage == [type |-> "none", text |-> <<>>]

\* Account rows the server may return
AcctA == [email |-> <<"a">>, expired |-> FALSE]

AcctB == [email |-> <<"b">>, expired |-> TRUE]

AccountLists == {<<AcctA>>, <<AcctB, AcctA>>}

-----------------------------------------------------------------------------
\* HTTP responses: the server (and the network) are free to answer anything.

OkStatuses == {"200"}

UndecodableBody ==
    [kind |-> "undecodable", hasAccounts |-> FALSE, accounts |-> <<>>,
     hasDetail |-> FALSE, detail |-> <<>>]

JsonNull ==
    [kind |-> "null", hasAccounts |-> FALSE, accounts |-> <<>>,
     hasDetail |-> FALSE, detail |-> <<>>]

\* {} : an object with neither field
EmptyObject ==
    [kind |-> "object", hasAccounts |-> FALSE, accounts |-> <<>>,
     hasDetail |-> FALSE, detail |-> <<>>]

\* {accounts: a}
AccountsBody(a) == [EmptyObject EXCEPT !.hasAccounts = TRUE, !.accounts = a]

\* {detail: d}
DetailBody(d) == [EmptyObject EXCEPT !.hasDetail = TRUE, !.detail = d]

Response(status, body) == [net |-> FALSE, status |-> status, body |-> body]

\* fetch() rejected: no response at all
NetworkError == [net |-> TRUE, status |-> "0", body |-> UndecodableBody]

\* What may come back for GET /demo-accounts
ListResponses ==
    {NetworkError}
    \cup {Response("200", b) :
            b \in {UndecodableBody, JsonNull, EmptyObject}
                  \cup {AccountsBody(a) : a \in AccountLists}}
    \cup {Response("401", b) : b \in {UndecodableBody, DetailBody(<<"Invalid key">>)}}

\* What may come back for POST /grant-demo and DELETE /revoke-demo
MutationResponses ==
    {NetworkError}
    \cup {Response("200", b) : b \in {UndecodableBody, EmptyObject}}
    \cup {Response("401", b) :
            b \in {UndecodableBody, JsonNull, EmptyObject,
                   DetailBody(<<>>), DetailBody(<<"Account not found">>)}}

Responses == ListResponses \cup MutationResponses

\* res.ok
Ok(res) == res.status \in OkStatuses

\* Outcome of an awaited call: it throws an Error(message) or returns data.
Throw(msg) == [thrown |-> TRUE, message |-> msg, data |-> JsonNull]

Return(data) == [thrown |-> FALSE, message |-> <<>>, data |-> data]

\* res.json()
Json(res) ==
    IF res.body.kind = "undecodable"
    THEN Throw(<<"Unexpected token">>)
    ELSE Return(res.body)

\* `Error ${res.status}`
ErrorStatus(res) == <<"Error ", res.status>>

\* Variant: the status alone, the body is not consulted.
DetailOrStatus_statusOnly(res) == ErrorStatus(res)

\* data?.detail || `Error ${res.status}` with data = await res.json().catch(() => null)
DetailOrStatus(res) ==
    IF res.body.kind = "object" /\ res.body.hasDetail /\ res.body.detail # <<>>
    THEN res.body.detail
    ELSE ErrorStatus(res)

\* api(key).listAccounts(), given the response to its fetch
listAccounts(res) ==
    IF res.net THEN Throw(<<"Failed to fetch">>)
    ELSE IF ~Ok(res) THEN Throw(ErrorStatus(res))
    ELSE Json(res)

\* api(key).grantDemo(email, days), given the response to its fetch
grantDemo(res) ==
    IF res.net THEN Throw(<<"Failed to fetch">>)
    ELSE IF ~Ok(res) THEN Throw(DetailOrStatus(res))
    ELSE Json(res)

\* Variant: revokeDemo reports the status only, as listAccounts does.
revokeDemo_statusOnly(res) ==
    IF res.net THEN Throw(<<"Failed to fetch">>)
    ELSE IF ~Ok(res) THEN Throw(ErrorStatus(res))
    ELSE Json(res)

\* api(key).revokeDemo(email), given the response to its fetch
revokeDemo(res) ==
    IF res.net THEN Throw(<<"Failed to fetch">>)
    ELSE IF ~Ok(res) THEN Throw(DetailOrStatus(res))
    ELSE Json(res)

-----------------------------------------------------------------------------
\* Requests

NoBody == [email |-> <<>>, days |-> 0, modules |-> <<>>]

\* fetch(...) issued by handler `kind` of a component rendered with key k.
\* arg and d are the handler's captured email and days.
Request(id, kind, k, arg, d, body) ==
    [id |-> id, kind |-> kind, key |-> k, live |-> TRUE,
     email |-> arg, days |-> d, body |-> body]

\* loadAccounts() of a Dashboard rendered with key k
ListRequest(id, k, live) ==
    [Request(id, "list", k, <<>>, "7", NoBody) EXCEPT !.live = live]

\* Another request may be issued.
CanIssue == nextId <= MaxReq

\* The component owning these requests' closures is unmounted.
Unmount(reqs, kinds) ==
    {IF r.kind \in kinds THEN [r EXCEPT !.live = FALSE] ELSE r : r \in reqs}

\* App renders <LoginScreen> when !adminKey, else <Dashboard>
LoginMounted == adminKey = Null

DashMounted == adminKey # Null

\* useState initial values of a freshly mounted LoginScreen
ResetLogin ==
    /\ key' = <<>>
    /\ loading' = FALSE
    /\ error' = <<>>

\* useState initial values of a freshly mounted Dashboard
ResetDash ==
    /\ accounts' = <<>>
    /\ email' = <<>>
    /\ days' = "7"
    /\ granting' = FALSE
    /\ revoking' = Null
    /\ message' = NoMessage
    /\ loadingAccounts' = TRUE

\* Page load: App reads localStorage; a Dashboard mounted on load runs its
\* effect, which calls loadAccounts().
Init ==
    /\ storage \in {Null} \cup {k \in KeyInputs : Trim(k) # <<>>}
    /\ adminKey = storage
    /\ key = <<>>
    /\ loading = FALSE
    /\ error = <<>>
    /\ accounts = <<>>
    /\ email = <<>>
    /\ days = "7"
    /\ granting = FALSE
    /\ revoking = Null
    /\ message = NoMessage
    /\ loadingAccounts = TRUE
    /\ inflight = IF storage # Null THEN {ListRequest(1, storage, TRUE)} ELSE {}
    /\ nextId = IF storage # Null THEN 2 ELSE 1

-----------------------------------------------------------------------------
\* LoginScreen

\* onChange of the key input
SetKey(v) ==
    /\ LoginMounted
    /\ key' = v
    /\ UNCHANGED <<storage, adminKey, loading, error, dashVars, inflight, nextId>>

\* handleLogin up to its await
handleLogin ==
    IF Trim(key) = <<>>
    THEN UNCHANGED vars
    ELSE /\ CanIssue
         /\ loading' = TRUE
         /\ error' = <<>>
         /\ inflight' = inflight \cup {Request(nextId, "login", key, <<>>, "7", NoBody)}
         /\ nextId' = nextId + 1
         /\ UNCHANGED <<storage, adminKey, key, dashVars>>

\* The Sign In button: disabled={loading || !key.trim()}
LoginClick ==
    /\ LoginMounted
    /\ ~(loading \/ Trim(key) = <<>>)
    /\ handleLogin

\* onKeyDown of the key input: Enter calls handleLogin()
LoginEnter ==
    /\ LoginMounted
    /\ handleLogin

\* Variant: the key is normalised before it is stored.
setItem_trimmed(k) == Trim(k)

\* localStorage.setItem("admin_key", key)
setItem(k) == k

\* onLogin(key) = setAdminKey(key), with the re-render it causes: the first
\* non-null key mounts a Dashboard (and unmounts the LoginScreen), a different
\* key re-renders the mounted Dashboard, whose effect runs again because
\* loadAccounts depends on adminKey; the same key changes nothing.
onLogin(r, rest) ==
    IF adminKey = r.key
    THEN /\ inflight' = rest
         /\ UNCHANGED <<adminKey, loginVars, dashVars, nextId>>
    ELSE /\ CanIssue
         /\ adminKey' = r.key
         /\ inflight' = Unmount(rest, {"login"}) \cup {ListRequest(nextId, r.key, TRUE)}
         /\ nextId' = nextId + 1
         /\ IF adminKey = Null
            THEN ResetLogin /\ ResetDash
            ELSE UNCHANGED <<loginVars, dashVars>>

\* handleLogin after its await, given the outcome of listAccounts()
loginResolve(r, out, rest) ==
    IF ~out.thrown
    THEN /\ storage' = setItem(r.key)
         /\ onLogin(r, rest)
    ELSE /\ IF r.live
            THEN error' = <<"Invalid admin key">> /\ loading' = FALSE /\ key' = key
            ELSE UNCHANGED loginVars
         /\ inflight' = rest
         /\ UNCHANGED <<storage, adminKey, dashVars, nextId>>

\* The response to a sign-in's list request arrives.
LoginSettle(r, res) ==
    /\ r \in inflight
    /\ r.kind = "login"
    /\ loginResolve(r, listAccounts(res), inflight \ {r})

-----------------------------------------------------------------------------
\* App

\* Variant: sign-out clears the session but leaves the stored key.
handleLogout_keepStorage ==
    /\ DashMounted
    /\ adminKey' = Null
    /\ ResetLogin
    /\ ResetDash
    /\ inflight' = Unmount(inflight, {"list", "grant", "revoke"})
    /\ UNCHANGED <<storage, nextId>>

\* handleLogout: the Dashboard unmounts, a fresh LoginScreen mounts
handleLogout ==
    /\ DashMounted
    /\ storage' = Null
    /\ adminKey' = Null
    /\ ResetLogin
    /\ ResetDash
    /\ inflight' = Unmount(inflight, {"list", "grant", "revoke"})
    /\ UNCHANGED nextId

\* The page is reloaded: pending closures are gone, App starts from storage.
Reload ==
    /\ storage # Null => CanIssue
    /\ adminKey' = storage
    /\ ResetLogin
    /\ ResetDash
    /\ inflight' = IF storage # Null THEN {ListRequest(nextId, storage, TRUE)} ELSE {}
    /\ nextId' = IF storage # Null THEN nextId + 1 ELSE nextId
    /\ UNCHANGED storage

-----------------------------------------------------------------------------
\* Dashboard

\* onChange of the email input
SetEmail(v) ==
    /\ DashMounted
    /\ email' = v
    /\ UNCHANGED <<storage, adminKey, loginVars, accounts, days, granting, revoking,
                   message, loadingAccounts, inflight, nextId>>

\* onValueChange of the trial duration select
SetDays(d) ==
    /\ DashMounted
    /\ days' = d
    /\ UNCHANGED <<storage, adminKey, loginVars, accounts, email, granting, revoking,
                   message, loadingAccounts, inflight, nextId>>

\* JSON body of the grant request
GrantBody(e, n) == [email |-> e, days |-> n, modules |-> DefaultModules]

\* Variant: the early return on a blank email is missing.
handleGrant_noGuard ==
    /\ CanIssue
    /\ granting' = TRUE
    /\ message' = NoMessage
    /\ inflight' = inflight \cup
           {Request(nextId, "grant", adminKey, Trim(email), days,
                    GrantBody(Trim(email), ParseInt(days)))}
    /\ nextId' = nextId + 1
    /\ UNCHANGED <<storage, adminKey, loginVars, accounts, email, days, revoking,
                   loadingAccounts>>

\* handleGrant up to its await
handleGrant ==
    IF Trim(email) = <<>>
    THEN UNCHANGED vars
    ELSE /\ CanIssue
         /\ granting' = TRUE
         /\ message' = NoMessage
         /\ inflight' = inflight \cup
                {Request(nextId, "grant", adminKey, Trim(email), days,
                         GrantBody(Trim(email), ParseInt(days)))}
         /\ nextId' = nextId + 1
         /\ UNCHANGED <<storage, adminKey, loginVars, accounts, email, days, revoking,
                        loadingAccounts>>

\* The Grant button: disabled={granting || !email.trim()}
GrantClick ==
    /\ DashMounted
    /\ ~(granting \/ Trim(email) = <<>>)
    /\ handleGrant

\* onKeyDown of the email input: Enter calls handleGrant()
GrantEnter ==
    /\ DashMounted
    /\ handleGrant

\* `Demo access granted to ${email.trim()} for ${days} days`
GrantedText(r) == <<"Demo access granted to ">> \o r.email \o <<" for ", r.days, " days">>

\* Variant: loadAccounts() is called in the finally block.
grantResolve_refreshAlways(r, out, rest) ==
    /\ CanIssue
    /\ IF r.live
       THEN /\ message' = IF ~out.thrown
                          THEN [type |-> "success", text |-> GrantedText(r)]
                          ELSE [type |-> "error", text |-> out.message]
            /\ email' = IF ~out.thrown THEN <<>> ELSE email
            /\ granting' = FALSE
            /\ UNCHANGED <<accounts, days, revoking, loadingAccounts>>
       ELSE UNCHANGED dashVars
    /\ inflight' = rest \cup {ListRequest(nextId, r.key, r.live)}
    /\ nextId' = nextId + 1
    /\ UNCHANGED <<storage, adminKey, loginVars>>

\* handleGrant after its await, given the outcome of grantDemo()
grantResolve(r, out, rest) ==
    /\ IF ~out.thrown
       THEN /\ CanIssue
            /\ IF r.live
               THEN /\ message' = [type |-> "success", text |-> GrantedText(r)]
                    /\ email' = <<>>
                    /\ granting' = FALSE
                    /\ UNCHANGED <<accounts, days, revoking, loadingAccounts>>
               ELSE UNCHANGED dashVars
            /\ inflight' = rest \cup {ListRequest(nextId, r.key, r.live)}
            /\ nextId' = nextId + 1
       ELSE /\ IF r.live
               THEN /\ message' = [type |-> "error", text |-> out.message]
                    /\ granting' = FALSE
                    /\ UNCHANGED <<accounts, email, days, revoking, loadingAccounts>>
               ELSE UNCHANGED dashVars
            /\ inflight' = rest
            /\ UNCHANGED nextId
    /\ UNCHANGED <<storage, adminKey, loginVars>>

\* The response to a grant request arrives.
GrantSettle(r, res) ==
    /\ r \in inflight
    /\ r.kind = "grant"
    /\ grantResolve(r, grantDemo(res), inflight \ {r})

\* handleRevoke(accountEmail) up to its await
handleRevoke(e) ==
    /\ CanIssue
    /\ revoking' = e
    /\ inflight' = inflight \cup {Request(nextId, "revoke", adminKey, e, "7", NoBody)}
    /\ nextId' = nextId + 1
    /\ UNCHANGED <<storage, adminKey, loginVars, accounts, email, days, granting,
                   message, loadingAccounts>>

\* The Revoke button of row i: rendered once loaded, disabled={revoking === account.email}
RevokeClick(i) ==
    /\ DashMounted
    /\ ~loadingAccounts
    /\ i \in 1..Len(accounts)
    /\ revoking # accounts[i].email
    /\ handleRevoke(accounts[i].email)

\* Variant: a fixed failure text.
RevokeFailedText_generic(r) == <<"Failed to revoke">>

\* `Failed to revoke ${accountEmail}`
RevokeFailedText(r) == <<"Failed to revoke ">> \o r.email

\* Variant: the revoked row is dropped from the list without waiting for the refresh.
revokeResolve_optimistic(r, out, rest) ==
    /\ IF ~out.thrown
       THEN /\ CanIssue
            /\ IF r.live
               THEN /\ revoking' = Null
                    /\ accounts' = SelectSeq(accounts, LAMBDA a : a.email # r.email)
                    /\ UNCHANGED <<email, days, granting, message, loadingAccounts>>
               ELSE UNCHANGED dashVars
            /\ inflight' = rest \cup {ListRequest(nextId, r.key, r.live)}
            /\ nextId' = nextId + 1
       ELSE /\ IF r.live
               THEN /\ message' = [type |-> "error", text |-> RevokeFailedText(r)]
                    /\ revoking' = Null
                    /\ UNCHANGED <<accounts, email, days, granting, loadingAccounts>>
               ELSE UNCHANGED dashVars
            /\ inflight' = rest
            /\ UNCHANGED nextId
    /\ UNCHANGED <<storage, adminKey, loginVars>>

\* handleRevoke after its await, given the outcome of revokeDemo()
revokeResolve(r, out, rest) ==
    /\ IF ~out.thrown
       THEN /\ CanIssue
            /\ IF r.live
               THEN /\ revoking' = Null
                    /\ UNCHANGED <<accounts, email, days, granting, message, loadingAccounts>>
               ELSE UNCHANGED dashVars
            /\ inflight' = rest \cup {ListRequest(nextId, r.key, r.live)}
            /\ nextId' = nextId + 1
       ELSE /\ IF r.live
               THEN /\ message' = [type |-> "error", text |-> RevokeFailedText(r)]
                    /\ revoking' = Null
                    /\ UNCHANGED <<accounts, email, days, granting, loadingAccounts>>
               ELSE UNCHANGED dashVars
            /\ inflight' = rest
            /\ UNCHANGED nextId
    /\ UNCHANGED <<storage, adminKey, loginVars>>

\* The response to a revoke request arrives.
RevokeSettle(r, res) ==
    /\ r \in inflight
    /\ r.kind = "revoke"
    /\ revokeResolve(r, revokeDemo(res), inflight \ {r})

\* data.accounts || [] ; reading .accounts of null throws a TypeError
AccountsOf(out) ==
    IF out.data.kind = "null" THEN Throw(<<"Cannot read properties of null">>)
    ELSE IF out.data.hasAccounts THEN Return(out.data.accounts)
    ELSE Return(<<>>)

\* Variant: a failed load signs the administrator out.
loadResolve_signOutOnFailure(r, out, rest) ==
    IF r.live /\ (out.thrown \/ AccountsOf(out).thrown)
    THEN /\ storage' = Null
         /\ adminKey' = Null
         /\ ResetLogin
         /\ ResetDash
         /\ inflight' = Unmount(rest, {"list", "grant", "revoke"})
         /\ UNCHANGED nextId
    ELSE /\ IF r.live
            THEN /\ accounts' = AccountsOf(out).data
                 /\ loadingAccounts' = FALSE
                 /\ UNCHANGED <<email, days, granting, revoking, message>>
            ELSE UNCHANGED dashVars
         /\ inflight' = rest
         /\ UNCHANGED <<storage, adminKey, loginVars, nextId>>

\* Variant: a failed load clears the list.
loadResolve_clearOnFailure(r, out, rest) ==
    /\ IF r.live
       THEN /\ accounts' = IF ~out.thrown /\ ~AccountsOf(out).thrown
                           THEN AccountsOf(out).data
                           ELSE <<>>
            /\ loadingAccounts' = FALSE
            /\ UNCHANGED <<email, days, granting, revoking, message>>
       ELSE UNCHANGED dashVars
    /\ inflight' = rest
    /\ UNCHANGED <<storage, adminKey, loginVars, nextId>>

\* Variant: a response is dropped while a list request issued later by the
\* same dashboard is still outstanding (the latest request wins).
loadResolve_latestIssuedWins(r, out, rest) ==
    /\ IF r.live
       THEN /\ accounts' = IF /\ ~out.thrown
                              /\ ~AccountsOf(out).thrown
                              /\ ~\E q \in rest : q.kind = "list" /\ q.live /\ q.id > r.id
                           THEN AccountsOf(out).data
                           ELSE accounts
            /\ loadingAccounts' = FALSE
            /\ UNCHANGED <<email, days, granting, revoking, message>>
       ELSE UNCHANGED dashVars
    /\ inflight' = rest
    /\ UNCHANGED <<storage, adminKey, loginVars, nextId>>

\* Variant: the rows of the response are appended to the rows already shown.
loadResolve_append(r, out, rest) ==
    /\ IF r.live
       THEN /\ accounts' = IF ~out.thrown /\ ~AccountsOf(out).thrown
                           THEN accounts \o AccountsOf(out).data
                           ELSE accounts
            /\ loadingAccounts' = FALSE
            /\ UNCHANGED <<email, days, granting, revoking, message>>
       ELSE UNCHANGED dashVars
    /\ inflight' = rest
    /\ UNCHANGED <<storage, adminKey, loginVars, nextId>>

\* Variant: setLoadingAccounts(false) at the end of the try block, not in finally.
loadResolve_loadingUntilSuccess(r, out, rest) ==
    /\ IF r.live
       THEN /\ accounts' = IF ~out.thrown /\ ~AccountsOf(out).thrown
                           THEN AccountsOf(out).data
                           ELSE accounts
            /\ loadingAccounts' = IF ~out.thrown /\ ~AccountsOf(out).thrown
                                  THEN FALSE
                                  ELSE loadingAccounts
            /\ UNCHANGED <<email, days, granting, revoking, message>>
       ELSE UNCHANGED dashVars
    /\ inflight' = rest
    /\ UNCHANGED <<storage, adminKey, loginVars, nextId>>

\* loadAccounts after its await, given the outcome of listAccounts()
loadResolve(r, out, rest) ==
    /\ IF r.live
       THEN /\ accounts' = IF ~out.thrown /\ ~AccountsOf(out).thrown
                           THEN AccountsOf(out).data
                           ELSE accounts
            /\ loadingAccounts' = FALSE
            /\ UNCHANGED <<email, days, granting, revoking, message>>
       ELSE UNCHANGED dashVars
    /\ inflight' = rest
    /\ UNCHANGED <<storage, adminKey, loginVars, nextId>>

\* The response to a Dashboard list request arrives.
ListSettle(r, res) ==
    /\ r \in inflight
    /\ r.kind = "list"
    /\ loadResolve(r, listAccounts(res), inflight \ {r})

-----------------------------------------------------------------------------

Next ==
    \/ \E v \in KeyInputs : SetKey(v)
    \/ LoginClick
    \/ LoginEnter
    \/ \E r \in inflight, res \in ListResponses : LoginSettle(r, res)
    \/ handleLogout
    \/ Reload
    \/ \E v \in EmailInputs : SetEmail(v)
    \/ \E d \in DaysOptions : SetDays(d)
    \/ GrantClick
    \/ GrantEnter
    \/ \E r \in inflight, res \in MutationResponses : GrantSettle(r, res)
    \/ \E i \in DOMAIN accounts : RevokeClick(i)
    \/ \E r \in inflight, res \in MutationResponses : RevokeSettle(r, res)
    \/ \E r \in inflight, res \in ListResponses : ListSettle(r, res)

Spec == Init /\ [][Next]_vars

\* A request in flight comes to its end.  A request can always end by the
\* rejection of its fetch(), so a behaviour in which every request ends, by
\* whatever response, is one in which this action does not stay enabled
\* without being taken.
TimeOut ==
    \E r \in inflight :
        \/ LoginSettle(r, NetworkError)
        \/ ListSettle(r, NetworkError)
        \/ GrantSettle(r, NetworkError)
        \/ RevokeSettle(r, NetworkError)

\* A fetch() promise settles: requests do not stay in flight forever.
FairSpec == Spec /\ WF_vars(TimeOut)

-----------------------------------------------------------------------------
\* Vocabulary of the properties, stated on the response itself.

\* The request failed: no response, a non-success status, or a body that
\* does not decode.
Fails(res) == res.net \/ res.status \notin OkStatuses \/ res.body.kind = "undecodable"

\* The server answered with a success status.
SuccessStatus(res) == ~res.net /\ res.status \in OkStatuses

\* Requests issued by a step.
Issued == {q \in inflight' : q.id >= nextId}

\* Requests a step takes out of flight, or marks as owned by an unmounted component.
Settled == inflight \ inflight'

FailResponses == {res \in Responses : Fails(res)}

\* The single request a step issued is a list request carrying key k.
IssuedOneList(k) ==
    /\ Cardinality(Issued) = 1
    /\ \A q \in Issued : q.kind = "list" /\ q.key = k

LiveOf(kind) == {r \in inflight : r.kind = kind /\ r.live}

-----------------------------------------------------------------------------
\* C1: a sign-in attempt whose list request fails never writes its key to
\* storage and never authenticates the session; after it the session is on
\* the login screen with the error "Invalid admin key" set.
C1_FailedSignInStaysOnLogin ==
    [][\A r \in Settled, res \in FailResponses :
          LoginSettle(r, res) =>
              /\ storage' = storage
              /\ adminKey' = adminKey
              /\ adminKey' = Null
              /\ error' = <<"Invalid admin key">>]_vars

\* C2: from a login screen on which no sign-in has been submitted since it
\* was mounted (by sign-out or by a load without a stored key), no step
\* writes the stored key or authenticates the session.
C2_SignOutSticks ==
    [][(LoginMounted /\ ~loading /\ error = <<>>) =>
          (storage' = Null /\ adminKey' = Null)]_vars

\* C3 as stated: a sign-in succeeds iff the server answers its list request
\* with a success status, and then stores and adopts exactly the submitted key.
C3_SuccessIffSuccessStatus ==
    [][\A r \in Settled, res \in Responses :
          LoginSettle(r, res) =>
              IF SuccessStatus(res)
              THEN storage' = r.key /\ adminKey' = r.key
              ELSE storage' = storage /\ adminKey' = adminKey]_vars

\* C3 amended: a sign-in succeeds iff the server answers its list request
\* with a success status and a body that decodes as JSON; on success the
\* stored entry and the session credential are exactly the submitted key,
\* otherwise neither changes.
C3_SuccessIffDecodedSuccess ==
    [][\A r \in Settled, res \in Responses :
          LoginSettle(r, res) =>
              /\ Trim(r.key) # <<>>
              /\ IF ~Fails(res)
                 THEN storage' = r.key /\ adminKey' = r.key
                 ELSE storage' = storage /\ adminKey' = adminKey]_vars

C3_Witness ==
    /\ adminKey = <<" ", "k">>
    /\ storage = <<" ", "k">>
    /\ \E r \in inflight : r.kind = "login" /\ ~r.live

\* C4: a failed list, grant or revoke request leaves the session credential
\* and the stored key as they are; the session leaves authenticated only by
\* handleLogout; on load the session is authenticated exactly when a stored
\* key is present and no sign-in request is issued.
C4_OnlySignOutEndsSession ==
    [][/\ (adminKey' # adminKey \/ storage' # storage) =>
              \A r \in Settled, res \in FailResponses :
                  ~(ListSettle(r, res) \/ GrantSettle(r, res) \/ RevokeSettle(r, res))
       /\ (adminKey # Null /\ adminKey' = Null) => handleLogout
       /\ Reload => /\ (adminKey' # Null) <=> (storage # Null)
                    /\ \A q \in inflight' : q.kind # "login"]_vars

C4_Witness ==
    /\ adminKey # Null
    /\ storage = adminKey
    /\ message.type = "error"
    /\ message.text = <<"Error ", "401">>
    /\ \E r \in inflight : r.kind = "list" /\ r.live

\* C5: handleGrant with an empty or whitespace-only email changes nothing and
\* issues no request; every grant request issued carries the trimmed,
\* non-empty email of the input and the modules [blog, localseo].
C5_BlankGrantIsNoOp ==
    /\ [][/\ (DashMounted /\ Trim(email) = <<>>) =>
                /\ GrantEnter => UNCHANGED vars
                /\ \A q \in Issued : q.kind # "grant"
                /\ granting' => granting
           /\ \A q \in Issued :
                q.kind = "grant" =>
                    /\ q.body.email = Trim(email)
                    /\ q.body.modules = <<"blog", "localseo">>]_vars
    /\ [](\A r \in inflight :
            r.kind = "grant" =>
                /\ r.body.email # <<>>
                /\ r.body.email = Trim(r.body.email)
                /\ r.body.modules = <<"blog", "localseo">>)

C5_Witness ==
    /\ DashMounted
    /\ email = <<" ">>
    /\ \E r \in inflight : r.kind = "grant" /\ r.live /\ r.body.email = <<"a">>

\* C6: a grant that resolves successfully issues exactly one list request
\* (with the key of the grant) and, on its dashboard, empties the email input
\* and sets a success message; a grant that fails issues no request and leaves
\* the email input as it is.  (A dashboard unmounted by sign-out has no input
\* or message left to set: its pending grant still issues the list request.)
C6_GrantSuccessRefreshesOnce ==
    [][\A r \in Settled, res \in MutationResponses :
          GrantSettle(r, res) =>
              IF ~Fails(res)
              THEN /\ IssuedOneList(r.key)
                   /\ r.live => (email' = <<>> /\ message'.type = "success")
              ELSE /\ Issued = {}
                   /\ email' = email
                   /\ r.live => message'.type = "error"]_vars

C6_Witness ==
    /\ DashMounted
    /\ message.type = "success"
    /\ email = <<>>
    /\ ~granting
    /\ \E q \in inflight : q.kind = "list" /\ q.live /\ q.id = nextId - 1

\* C7: every successful grant and every successful revoke issues one list
\* request; no grant or revoke completion modifies the account list; the
\* list of a dashboard changes only in a step where a list response resolves
\* successfully (the list is created empty when its dashboard is mounted and
\* is gone when it is unmounted by sign-out or reload).
C7_ListChangesOnlyByListResponse ==
    [][/\ \A r \in Settled, res \in MutationResponses :
              (GrantSettle(r, res) \/ RevokeSettle(r, res)) =>
                  /\ accounts' = accounts
                  /\ ~Fails(res) => IssuedOneList(r.key)
       /\ accounts' # accounts =>
              \/ \E r \in Settled, res \in ListResponses :
                     ~Fails(res) /\ ListSettle(r, res)
              \/ handleLogout
              \/ Reload]_vars

C7_Witness ==
    /\ DashMounted
    /\ accounts = <<AcctA>>
    /\ revoking = Null
    /\ message = NoMessage
    /\ inflight = {ListRequest(3, adminKey, TRUE)}

\* C8: when a revoke request for email e fails, the step leaves the account
\* list unchanged and issues no request, and on its dashboard sets an error
\* message whose text contains e and resets revoking to null.
C8_RevokeFailure ==
    [][\A r \in Settled, res \in FailResponses :
          RevokeSettle(r, res) =>
              /\ accounts' = accounts
              /\ Issued = {}
              /\ r.live => /\ message'.type = "error"
                           /\ Contains(message'.text, r.email)
                           /\ r.email # <<>>
                           /\ revoking' = Null]_vars

C8_Witness ==
    /\ DashMounted
    /\ message = [type |-> "error", text |-> <<"Failed to revoke ", "a">>]
    /\ revoking = Null
    /\ accounts = <<AcctA>>
    /\ inflight = {}

\* C9 as stated: after a failed list request of the dashboard the account
\* list is empty, loadingAccounts is false and no message was set.
C9_ListFailureEmptiesList ==
    [][\A r \in Settled, res \in FailResponses :
          (ListSettle(r, res) /\ r.live) =>
              /\ accounts' = <<>>
              /\ loadingAccounts' = FALSE
              /\ message' = message]_vars

\* C9 amended: a failed list request of the mounted dashboard leaves the
\* account list as it was (empty only if no list response had filled it),
\* sets loadingAccounts to false, sets no message and issues no request.
C9_ListFailureKeepsList ==
    [][\A r \in Settled, res \in FailResponses :
          (ListSettle(r, res) /\ r.live) =>
              /\ accounts' = accounts
              /\ loadingAccounts' = FALSE
              /\ message' = message
              /\ Issued = {}
              /\ UNCHANGED <<adminKey, storage, email, granting, revoking>>]_vars

C9_Witness ==
    /\ DashMounted
    /\ accounts # <<>>
    /\ ~loadingAccounts
    /\ message.type = "success"
    /\ inflight = {}

\* C10: at most one grant request and at most one revoke request of the
\* dashboard are outstanding at any time.
C10_AtMostOneGrantAndRevoke ==
    /\ Cardinality(LiveOf("grant")) <= 1
    /\ Cardinality(LiveOf("revoke")) <= 1

\* The accounts sequence a decoded list response carries.
Payload(res) == IF res.body.hasAccounts THEN res.body.accounts ELSE <<>>

\* The server answered with a success status and a JSON object.
ListOk(res) == ~Fails(res) /\ res.body.kind = "object"

\* Other list requests of the same dashboard outstanding together with r.
OtherLists(r) == {q \in inflight : q # r /\ q.kind = "list" /\ q.live}

ClaimedFailureText(res) ==
    IF ~res.net /\ res.body.kind = "object" /\ res.body.hasDetail
    THEN res.body.detail
    ELSE <<"Error ", res.status>>

\* The server answered with a non-success status.
ErrorResponse(res) == ~res.net /\ res.status \notin OkStatuses

\* C12 as stated: when a grant or a revoke request of the dashboard fails,
\* the message set is the detail of the response when it carries one, and
\* "Error <status>" otherwise.
C12_FailureShowsServerMessage ==
    [][\A r \in Settled, res \in FailResponses :
          ((GrantSettle(r, res) \/ RevokeSettle(r, res)) /\ r.live) =>
              /\ message'.type = "error"
              /\ message'.text = ClaimedFailureText(res)]_vars

\* C12 amended: a failed grant sets an error message that is, for a
\* non-success status, the detail of the response when its body is an object
\* with a non-empty detail and "Error <status>" otherwise, and, when there is
\* no such response (no answer, or a success status with an undecodable
\* body), the text of the underlying error; a failed revoke for email e
\* always sets "Failed to revoke e", whatever the response carries.
C12_GrantShowsServerMessageRevokeDoesNot ==
    [][\A r \in Settled, res \in FailResponses :
          /\ (GrantSettle(r, res) /\ r.live) =>
                 /\ message'.type = "error"
                 /\ message'.text =
                       IF ErrorResponse(res)
                       THEN IF /\ res.body.kind = "object"
                               /\ res.body.hasDetail
                               /\ res.body.detail # <<>>
                            THEN res.body.detail
                            ELSE <<"Error ", res.status>>
                       ELSE IF res.net THEN <<"Failed to fetch">>
                            ELSE <<"Unexpected token">>
          /\ (RevokeSettle(r, res) /\ r.live) =>
                 /\ message'.type = "error"
                 /\ message'.text = <<"Failed to revoke ">> \o r.email]_vars

C12_Witness ==
    /\ DashMounted
    /\ ~granting
    /\ message = [type |-> "error", text |-> <<"Account not found">>]
    /\ \E r \in inflight : r.kind = "revoke" /\ r.live

\* The outcome the claim expects of grantDemo and revokeDemo for an answer.
ClaimedMutationOutcome(res) ==
    IF ErrorResponse(res)
    THEN Throw(ClaimedFailureText(res))
    ELSE Return(res.body)

\* The outcome the claim expects of listAccounts for an answer.
ClaimedListOutcome(res) ==
    IF ErrorResponse(res)
    THEN Throw(<<"Error ", res.status>>)
    ELSE Return(res.body)

\* The client operation awaited by the handler of request r, applied to res.
OutcomeOf(r, res) ==
    IF r.kind = "grant" THEN grantDemo(res)
    ELSE IF r.kind = "revoke" THEN revokeDemo(res)
    ELSE listAccounts(res)

\* The answers the server may give to request r.
AnswersFor(r) ==
    {res \in IF r.kind \in {"grant", "revoke"} THEN MutationResponses ELSE ListResponses :
        ~res.net}

\* C13 as stated: whatever the server answers to an outstanding request, for
\* a non-success status s grantDemo and revokeDemo fail with the detail of
\* the body when it decodes and has one, else with "Error s"; listAccounts
\* fails with "Error s"; for a success status each operation returns the
\* decoded body and does not fail.
C13_ErrorNormalization ==
    \A r \in inflight : \A res \in AnswersFor(r) :
        OutcomeOf(r, res) =
            IF r.kind \in {"grant", "revoke"}
            THEN ClaimedMutationOutcome(res)
            ELSE ClaimedListOutcome(res)

\* C13 amended: whatever the server answers to an outstanding request, for a
\* non-success status s grantDemo and revokeDemo fail with the detail of the
\* body when it decodes to an object with a non-empty detail, else with
\* "Error s"; listAccounts fails with "Error s" whatever the body; for a
\* success status each operation returns the decoded body when the body
\* decodes and fails when it does not.
C13_ErrorNormalizationTruthyDetail ==
    \A r \in inflight : \A res \in AnswersFor(r) :
        /\ ErrorResponse(res) =>
              /\ OutcomeOf(r, res).thrown
              /\ OutcomeOf(r, res).message =
                    IF /\ r.kind \in {"grant", "revoke"}
                       /\ res.body.kind = "object"
                       /\ res.body.hasDetail
                       /\ res.body.detail # <<>>
                    THEN res.body.detail
                    ELSE <<"Error ", res.status>>
        /\ SuccessStatus(res) =>
              IF res.body.kind = "undecodable"
              THEN OutcomeOf(r, res).thrown
              ELSE ~OutcomeOf(r, res).thrown /\ OutcomeOf(r, res).data = res.body

\* A grant was answered with a non-success status and no usable detail.
C13_Witness ==
    /\ DashMounted
    /\ ~granting
    /\ message = [type |-> "error", text |-> <<"Error ", "401">>]
    /\ email # <<>>
    /\ \E r \in inflight : r.kind = "revoke" /\ r.live

\* The step issued exactly one request, of the given kind.
IssuedOne(kind) ==
    /\ Cardinality(Issued) = 1
    /\ \A q \in Issued : q.kind = kind

\* Nothing is retried: an accepted sign-in, grant or revoke issues one
\* request of its kind, the failure of a request issues none, and a request
\* is issued only by an action of the administrator (a page load included)
\* or by the success of a request.
NoRetryStep ==
    /\ (Trim(key) # <<>> /\ LoginEnter) => IssuedOne("login")
    /\ (Trim(email) # <<>> /\ GrantEnter) => IssuedOne("grant")
    /\ (\E i \in DOMAIN accounts : RevokeClick(i)) => IssuedOne("revoke")
    /\ \A r \in Settled, res \in FailResponses :
          (LoginSettle(r, res) \/ GrantSettle(r, res) \/ RevokeSettle(r, res)
              \/ ListSettle(r, res)) => Issued = {}
    /\ Issued # {} =>
          \/ LoginEnter \/ GrantEnter \/ Reload
          \/ \E i \in DOMAIN accounts : RevokeClick(i)
          \/ /\ IssuedOne("list")
             /\ \E r \in Settled, res \in Responses :
                   /\ ~Fails(res)
                   /\ LoginSettle(r, res) \/ GrantSettle(r, res) \/ RevokeSettle(r, res)

\* Every failure of a sign-in request sets the error "Invalid admin key".
SignInFailureStep ==
    \A r \in Settled, res \in FailResponses :
        LoginSettle(r, res) => error' = <<"Invalid admin key">>

\* C14: no request is retried automatically (each accepted sign-in, grant or
\* revoke issues exactly one request of its kind and a failed request is
\* followed by no request until the administrator acts again), and every
\* sign-in failure shows the fixed message "Invalid admin key".
C14_NoRetryAndFixedSignInMessage == [][NoRetryStep /\ SignInFailureStep]_vars

\* C15 as stated: a list response of the dashboard that resolves
\* successfully replaces the account list by the accounts of the response,
\* in the order of the response, or by the empty sequence when the response
\* has no accounts field.
C15_ListReplacedWholesale ==
    [][\A r \in Settled, res \in ListResponses :
          (ListSettle(r, res) /\ r.live /\ ~Fails(res)) =>
              accounts' = Payload(res)]_vars

\* C15 amended: a list response of the dashboard with a success status and a
\* JSON object as body replaces the account list by the accounts of the
\* response, in the order of the response, or by the empty sequence when the
\* object has no accounts field, keeping nothing of the previous list; a
\* success status with the body null leaves the list as it was.
C15_ListReplacedByObjectBody ==
    [][\A r \in Settled, res \in ListResponses :
          (ListSettle(r, res) /\ r.live /\ ~Fails(res)) =>
              /\ res.body.kind = "object" =>
                    /\ accounts' = Payload(res)
                    /\ Len(accounts') = Len(Payload(res))
              /\ res.body.kind = "null" => accounts' = accounts
              /\ loadingAccounts' = FALSE]_vars

\* A loaded list was replaced by the empty sequence: a revoke was clicked on
\* a row and a later response without accounts field emptied the list.
C15_Witness ==
    /\ DashMounted
    /\ ~loadingAccounts
    /\ accounts = <<>>
    /\ revoking # Null

\* loadingAccounts is true when a dashboard is mounted, is set to false by
\* every list response of the dashboard (success or failure) and by nothing
\* else, and is true again only in a newly mounted dashboard.
LoadingStep ==
    /\ (adminKey = Null /\ adminKey' # Null) => loadingAccounts'
    /\ (storage # Null /\ Reload) => loadingAccounts'
    /\ \A r \in Settled :
          (r.kind = "list" /\ r.live) =>
              \A res \in ListResponses : ListSettle(r, res) => ~loadingAccounts'
    /\ (loadingAccounts /\ ~loadingAccounts') =>
          \E r \in Settled, res \in ListResponses : ListSettle(r, res) /\ r.live
    /\ (~loadingAccounts /\ loadingAccounts') => (handleLogout \/ Reload)

\* C16: in a dashboard session loadingAccounts starts true, with the list
\* request of the mount outstanding, becomes false when the first list
\* request of the dashboard settles, by success or by failure, and is not
\* true again in that session (the refresh after a grant or revoke does not
\* set it); when every request issued eventually settles, a dashboard that
\* is loading eventually has loadingAccounts = false, unless the session is
\* ended by sign-out first.
C16_LoadingEndsOnceAndForAll ==
    /\ [][LoadingStep]_vars
    /\ [](DashMounted /\ loadingAccounts => LiveOf("list") # {})
    /\ (DashMounted /\ loadingAccounts) ~> (LoginMounted \/ ~loadingAccounts)

\* The first list request failed and the refresh after a grant is
\* outstanding: the dashboard is not loading.
C16_Witness ==
    /\ DashMounted
    /\ ~loadingAccounts
    /\ accounts = <<>>
    /\ message.type = "success"
    /\ LiveOf("list") # {}

\* C17: in every reachable state the session credential and the stored
\* "admin_key" entry agree: the session is authenticated with k exactly when
\* the entry exists and equals k, and unauthenticated exactly when the entry
\* is absent.
C17_CredentialMatchesStorage ==
    /\ \A k \in KeyInputs : (adminKey = k) <=> (storage = k)
    /\ (adminKey = Null) <=> (storage = Null)
    /\ adminKey \in KeyInputs \cup {Null}

\* Signed in with k, by one of two concurrent attempts, and loaded.
C17_Witness ==
    /\ adminKey = <<"k">>
    /\ storage = <<"k">>
    /\ ~loadingAccounts
    /\ \E r \in inflight : r.kind = "login" /\ ~r.live

\* C18: the indicators of the dashboard are accurate in every reachable
\* state: granting is true exactly while a grant request is outstanding;
\* while a revoke request for e is outstanding revoking is e (not null, and
\* the Revoke button of e disabled), and revoking is null when no revoke
\* request is outstanding.
C18_IndicatorsAccurate ==
    /\ granting <=> (LiveOf("grant") # {})
    /\ \A r \in LiveOf("revoke") : revoking # Null /\ revoking = r.email
    /\ (LiveOf("revoke") = {}) => revoking = Null

\* C19: the account list of a session authenticated with k comes from list
\* requests that carried k: no list response to a request sent with another
\* key changes the list, and a session that changes its key does not keep
\* the rows obtained with the previous one.
C19_ListFromCurrentCredential ==
    [][/\ accounts' # accounts =>
              \A r \in Settled :
                  (r.kind = "list" /\ r.live /\ adminKey' # Null) => r.key = adminKey'
       /\ (adminKey' # adminKey /\ adminKey' # Null) => accounts' = <<>>]_vars

====
